---- MODULE Spec2Model ----
(***************************************************************************)
(* A model of src/app.js: the GET /water-savings endpoint, its weather     *)
(* fetcher (node-cache lookup, axios call with axios-retry) and the        *)
(* aggregation loop that buckets hourly precipitation by month.            *)
(*                                                                         *)
(* JavaScript strings are sequences of one-character strings.  Litres are  *)
(* floating-point numbers: integers counted in a fixed unit and rounded to *)
(* MantissaBits significant bits after every arithmetic operation.         *)
(***************************************************************************)
EXTENDS Integers, Sequences, FiniteSets, TLC

VARIABLES
    now,        \* the clock (Date.now()), in seconds
    cache,      \* node-cache's data: cacheKey -> [v, t]  (value, expiry time)
    pc,         \* per request: "idle" | "awaiting" | "backoff" | "done"
    query,      \* per request: req.query
    attempts,   \* per request: attempts made by the pending or failed axios call
    resp,       \* per request: the responses sent, in order
    served,     \* per request: where getWeatherData took its result from
    calls,      \* history: cacheKey -> number of axios.get calls of getWeatherData
    lastSet,    \* history: cacheKey -> the last completed upstream call
    utcOffset,  \* the server's local UTC offset, in hours (process time zone)
    dates, precipitation, area,                    \* the aggregation's inputs
    index, monthlyWaterCollected, totalWaterCollected,  \* the forEach loop
    bucketOf    \* history: the bucket each processed entry was added to

vars == <<now, cache, pc, query, attempts, resp, served, calls, lastSet, utcOffset,
          dates, precipitation, area, index, monthlyWaterCollected,
          totalWaterCollected, bucketOf>>

serverVars == <<now, cache, pc, query, attempts, resp, served, calls, lastSet>>
loopVars == <<dates, precipitation, area, index, monthlyWaterCollected,
              totalWaterCollected, bucketOf>>

-----------------------------------------------------------------------------
(* Bounds of the model *)

MaxReqs == 2
MaxTicks == 3
MaxStrLen == 3
MaxSeriesLen == 3
MantissaBits == 8

Reqs == 1..MaxReqs

-----------------------------------------------------------------------------
(* Program constants *)

stdTTL == 3600
retries == 5

\* The clock advances in steps of half a TTL, so that a lookup can fall before,
\* exactly on and after an entry's expiry time.
ClockStep == stdTTL \div 2

EmptyFn == [x \in {} |-> 0]

Put(f, k, v) == [x \in DOMAIN f \cup {k} |-> IF x = k THEN v ELSE f[x]]

Remove(f, k) == [x \in DOMAIN f \ {k} |-> f[x]]

Abs(x) == IF x < 0 THEN -x ELSE x

-----------------------------------------------------------------------------
(* JavaScript numbers.  A litre amount is an integer count of units, kept  *)
(* to MantissaBits significant bits: every sum and product is rounded to   *)
(* the nearest representable value, ties to even, as IEEE-754 does with 53 *)
(* bits.                                                                   *)

\* 2^MantissaBits, and the spacings two neighbouring values can have
Radix == 2 ^ MantissaBits
Granules == {2 ^ k : k \in 0..(30 - MantissaBits)}

\* the spacing of the representable values around the magnitude m: the
\* power of two g with Radix * g / 2 <= m < Radix * g
Granule(m) ==
    CHOOSE g \in Granules :
        /\ m < g * Radix
        /\ g = 1 \/ m >= (g \div 2) * Radix

\* m rounded to a multiple of g, ties to the even multiple
RoundTo(m, g) ==
    LET q == m \div g
        rem == m % g
    IN  IF 2 * rem > g \/ (2 * rem = g /\ q % 2 = 1) THEN (q + 1) * g
        ELSE q * g

RoundMagnitude(m) == CHOOSE y \in {RoundTo(m, g) : g \in {Granule(m)}} : TRUE

Round(v) == IF v < 0 THEN -RoundMagnitude(-v) ELSE RoundMagnitude(v)

\* the representable value nearest to x (x is evaluated once, as v)
Float(x) == CHOOSE y \in {Round(v) : v \in {x}} : TRUE

FloatAdd(a, b) == Float(a + b)

FloatMul(a, b) == Float(a * b)

\* 0.0929 counted in units of 1e-4; a litre amount is counted in units of
\* 1e-4 / area.den litres.
SqFtFactor == 929

-----------------------------------------------------------------------------
(* parseFloat: an optional "-", digits, an optional "." and digits; the     *)
(* longest such prefix is the number and what follows it is ignored.  The   *)
(* result is NaN or the rational num / den.                                 *)

Digits == {"0", "1", "5"}

DigitValue(c) == IF c = "0" THEN 0 ELSE IF c = "1" THEN 1 ELSE 5

RECURSIVE DigitRun(_, _)
DigitRun(s, i) ==
    IF i <= Len(s) /\ s[i] \in Digits THEN 1 + DigitRun(s, i + 1) ELSE 0

RECURSIVE DigitsValue(_, _, _)
DigitsValue(s, i, n) ==
    IF n = 0 THEN 0
    ELSE DigitsValue(s, i, n - 1) * 10 + DigitValue(s[i + n - 1])

NaN == [nan |-> TRUE, num |-> 0, den |-> 1]

parseFloat(s) ==
    LET neg == Len(s) >= 1 /\ s[1] = "-"
        i0 == IF neg THEN 2 ELSE 1
        nInt == DigitRun(s, i0)
        i1 == i0 + nInt
        hasDot == i1 <= Len(s) /\ s[i1] = "."
        nFrac == IF hasDot THEN DigitRun(s, i1 + 1) ELSE 0
        mag == DigitsValue(s, i0, nInt) * 10 ^ nFrac
               + DigitsValue(s, i1 + 1, nFrac)
    IN  IF nInt + nFrac = 0 THEN NaN
        ELSE [nan |-> FALSE, num |-> IF neg THEN -mag ELSE mag,
              den |-> 10 ^ nFrac]

isNaN(x) == x.nan

-----------------------------------------------------------------------------
(* Timestamps and moment(date).format('YYYY-MM').  A timestamp is the month *)
(* it names (ym), whether it lies in the last hour of that month, and its   *)
(* zone designator: "none" ("2024-01-31T23:00", what the upstream sends) or *)
(* "Z" ("2024-01-31T23:00Z").  moment parses a string without designator as *)
(* local time and one with a designator as that instant, and formats in the *)
(* server's local time.                                                     *)

Timestamps ==
    { [ym |-> 1, lastHour |-> FALSE, zone |-> "none"],
      [ym |-> 1, lastHour |-> TRUE, zone |-> "Z"],
      [ym |-> 2, lastHour |-> FALSE, zone |-> "none"] }

momentFormat(date, off) ==
    IF date.zone = "Z" /\ date.lastHour /\ off >= 1 THEN date.ym + 1 ELSE date.ym

-----------------------------------------------------------------------------
(* The aggregation loop, lines 83-98 *)

NoBuckets == [monthly |-> EmptyFn, total |-> 0]

\* a bug: the bucket is reset on every entry
BucketIsFalsy_always(monthly, month) == TRUE

\* !monthlyWaterCollected[month]: the bucket is undefined or 0
BucketIsFalsy(monthly, month) ==
    month \notin DOMAIN monthly \/ monthly[month] = 0

WaterCollected(a, rainfallMm) ==
    FloatMul(FloatMul(Float(a.num), rainfallMm), Float(SqFtFactor))

\* one call of the forEach callback
ForEachBody(acc, date, rainfallMm, a, off) ==
    LET month == momentFormat(date, off)
        start == IF BucketIsFalsy(acc.monthly, month) THEN 0
                 ELSE acc.monthly[month]
    IN  CHOOSE next \in
            { [monthly |-> Put(acc.monthly, month, FloatAdd(start, waterCollected)),
               total |-> FloatAdd(acc.total, waterCollected)] :
              waterCollected \in {WaterCollected(a, rainfallMm)} } : TRUE

RECURSIVE ForEach(_, _, _, _, _)
ForEach(ds, ps, n, a, off) ==
    IF n = 0 THEN NoBuckets
    ELSE CHOOSE next \in { ForEachBody(acc, ds[n], ps[n], a, off) :
                               acc \in {ForEach(ds, ps, n - 1, a, off)} } : TRUE


-----------------------------------------------------------------------------
(* The upstream's response bodies (response.data), as JavaScript values *)

\* A body is named; the operators below give its JavaScript structure.
UpstreamBodies ==
    { "seriesA",          \* {hourly: {time: [...], precipitation: [...]}}
      "seriesB",          \* the same shape, another series
      "noHourly",         \* {}
      "noTime",           \* {hourly: {precipitation: [...]}}
      "noPrecipitation",  \* {hourly: {time: [...]}}
      "emptyBody",        \* ""
      "nullBody" }        \* null

undefined == "undefined"

IsObject(v) == v \in {"seriesA", "seriesB", "noHourly", "noTime", "noPrecipitation"}

HasHourly(v) == v \in {"seriesA", "seriesB", "noTime", "noPrecipitation"}

HasTime(v) == v \in {"seriesA", "seriesB", "noPrecipitation"}

HasPrecipitation(v) == v \in {"seriesA", "seriesB", "noTime"}

T1 == [ym |-> 1, lastHour |-> FALSE, zone |-> "none"]
T2 == [ym |-> 2, lastHour |-> FALSE, zone |-> "none"]

TimeOf(v) == IF v = "seriesA" THEN <<T1, T2, T1>> ELSE <<T2>>

PrecipitationOf(v) == IF v = "seriesA" THEN <<1, 3, 5>> ELSE <<3>>

\* if (cachedData): undefined, null and "" are falsy, every object is truthy
Truthy(v) == IsObject(v)

\* the ways an upstream attempt fails, by axios' error
Failures == {"ECONNRESET", "status5xx", "status4xx"}

ErrorMessage(e) ==
    IF e = "ECONNRESET" THEN "read ECONNRESET"
    ELSE IF e = "status5xx" THEN "Request failed with status code 503"
    ELSE "Request failed with status code 400"

\* axios-retry without a retryCondition option retries a GET on a network
\* error and on a 5xx response, and on nothing else
isNetworkOrIdempotentRequestError(e) == e \in {"ECONNRESET", "status5xx"}

\* a bug: one retry too few
RetriesLeft_oneFewer(n) == n < retries

\* axios-retry: retryCount < retries, where n attempts have made n - 1 retries
RetriesLeft(n) == n - 1 < retries

-----------------------------------------------------------------------------
(* req.query: a function from the parameters that are present to strings *)

Params == {"latitude", "longitude", "startDate", "endDate", "areaSqFt"}

\* !req.query.p: the parameter is absent or the empty string
Not(q, p) == p \notin DOMAIN q \/ q[p] = <<>>

MissingParameters(q) == \E p \in Params : Not(q, p)

\* a bug: the sign of the area is not checked
InvalidArea_nanOnly(a) == isNaN(a)

InvalidArea(a) == isNaN(a) \/ a.num <= 0

\* line 24: the template literal joins the four strings with commas
cacheKey(latitude, longitude, startDate, endDate) ==
    latitude \o <<",">> \o longitude \o <<",">> \o startDate \o <<",">> \o endDate

KeyOf(q) == cacheKey(q.latitude, q.longitude, q.startDate, q.endDate)

TupleOf(q) == <<q.latitude, q.longitude, q.startDate, q.endDate>>

-----------------------------------------------------------------------------
(* node-cache with stdTTL: 3600 *)

\* a bug: entries never expire
Expired_never(entry, t) == FALSE

\* _check: an entry is expired once its expiry time lies before the clock
Expired(entry, t) == entry.t < t

\* cache.get(key)
CacheGet(c, k, t) ==
    IF k \in DOMAIN c /\ ~Expired(c[k], t) THEN c[k].v ELSE undefined

\* cache.get deletes the entry it finds expired
CacheAfterGet(c, k, t) ==
    IF k \in DOMAIN c /\ Expired(c[k], t) THEN Remove(c, k) ELSE c

\* a bug: an entry already present is kept
CacheSet_keepFirst(c, k, v, t) ==
    IF k \in DOMAIN c THEN c ELSE Put(c, k, [v |-> v, t |-> t + stdTTL])

\* cache.set(key, value)
CacheSet(c, k, v, t) == Put(c, k, [v |-> v, t |-> t + stdTTL])

-----------------------------------------------------------------------------
(* Responses *)

Response(status, error, aggregated, body) ==
    [status |-> status, error |-> error, aggregated |-> aggregated, body |-> body]

MissingMessage == "Missing required parameters (latitude, longitude, startDate, endDate, areaSqFt)"
InvalidAreaMessage == "Invalid area value"
InvalidStructureMessage == "Invalid weather data structure"
NullTypeError == "Cannot read properties of null (reading 'hourly')"

\* lines 74-113, once getWeatherData has returned weatherData: the shape
\* check, the aggregation and the response; reading .hourly of null throws
\* and the catch answers with the TypeError's message
\* the strings areaSqFt ranges over
AreaAlphabet == {"0", "5", "-", ".", "a"}

AreaStrings == UNION {[1..n -> AreaAlphabet] : n \in 0..MaxStrLen}

ParsedAreas == {parseFloat(x) : x \in AreaStrings}

\* dates.forEach over a well-formed body, for every area and UTC offset
Aggregation ==
    [v \in {"seriesA", "seriesB"}, a \in ParsedAreas, off \in {0, 1} |->
        ForEach(TimeOf(v), PrecipitationOf(v), Len(TimeOf(v)), a, off)]

AfterFetch(weatherData, a, off) ==
    IF weatherData = "nullBody"
    THEN Response(500, NullTypeError, FALSE, NoBuckets)
    ELSE IF ~HasHourly(weatherData) \/ ~HasTime(weatherData)
            \/ ~HasPrecipitation(weatherData)
    THEN Response(500, InvalidStructureMessage, FALSE, NoBuckets)
    ELSE Response(200, "", TRUE,
                  Aggregation[weatherData, a, off])

NotServed == [from |-> "none", data |-> undefined, age |-> -1, tuple |-> <<>>]

\* the age of the key's last stored entry at a lookup, -1 if none was stored
AgeOf(k) == IF k \in DOMAIN lastSet THEN now - lastSet[k].at ELSE -1

TypeOK ==
    /\ now \in 0..(MaxTicks * ClockStep)
    /\ pc \in [Reqs -> {"idle", "awaiting", "backoff", "done"}]
    /\ attempts \in [Reqs -> 0..(retries + 1)]
    /\ \A r \in Reqs : Len(resp[r]) <= 1
    /\ \A k \in DOMAIN cache : cache[k].v \in UpstreamBodies

-----------------------------------------------------------------------------
(* The request handler *)

\* A request arrives and the handler runs up to its first pending await:
\* validation (lines 58-68), then getWeatherData's lookup (lines 24-31) and,
\* on a hit, the rest of the handler; on a miss, axios.get is issued (line 43).
Receive(r, q) ==
    /\ pc[r] = "idle"
    /\ \A s \in Reqs : s < r => pc[s] # "idle"
    /\ query' = [query EXCEPT ![r] = q]
    /\ UNCHANGED <<now, lastSet, utcOffset, loopVars>>
    /\ IF MissingParameters(q)
       THEN /\ resp' = [resp EXCEPT ![r] = <<Response(400, MissingMessage, FALSE, NoBuckets)>>]
            /\ pc' = [pc EXCEPT ![r] = "done"]
            /\ UNCHANGED <<cache, attempts, served, calls>>
       ELSE IF InvalidArea(parseFloat(q.areaSqFt))
       THEN /\ resp' = [resp EXCEPT ![r] = <<Response(400, InvalidAreaMessage, FALSE, NoBuckets)>>]
            /\ pc' = [pc EXCEPT ![r] = "done"]
            /\ UNCHANGED <<cache, attempts, served, calls>>
       ELSE LET k == KeyOf(q)
                cachedData == CacheGet(cache, k, now)
            IN  /\ cache' = CacheAfterGet(cache, k, now)
                /\ IF Truthy(cachedData)
                   THEN /\ served' = [served EXCEPT ![r] =
                               [from |-> "cache", data |-> cachedData,
                                age |-> AgeOf(k), tuple |-> lastSet[k].tuple]]
                        /\ resp' = [resp EXCEPT ![r] =
                               <<AfterFetch(cachedData, parseFloat(q.areaSqFt), utcOffset)>>]
                        /\ pc' = [pc EXCEPT ![r] = "done"]
                        /\ UNCHANGED <<attempts, calls>>
                   ELSE /\ served' = [served EXCEPT ![r] =
                               [from |-> "upstream", data |-> undefined,
                                age |-> AgeOf(k), tuple |-> TupleOf(q)]]
                        /\ calls' = Put(calls, k, (IF k \in DOMAIN calls THEN calls[k] ELSE 0) + 1)
                        /\ attempts' = [attempts EXCEPT ![r] = 1]
                        /\ pc' = [pc EXCEPT ![r] = "awaiting"]
                        /\ UNCHANGED resp

\* The pending attempt succeeds with body data: lines 46-48 store and return
\* it, and the handler goes on from line 74.
UpstreamSucceed(r, data) ==
    /\ pc[r] = "awaiting"
    /\ LET k == KeyOf(query[r])
       IN  /\ cache' = CacheSet(cache, k, data, now)
           /\ lastSet' = Put(lastSet, k, [at |-> now, v |-> data,
                                          tuple |-> TupleOf(query[r]), by |-> r])
    /\ served' = [served EXCEPT ![r].data = data]
    /\ resp' = [resp EXCEPT ![r] =
           Append(@, AfterFetch(data, parseFloat(query[r].areaSqFt), utcOffset))]
    /\ pc' = [pc EXCEPT ![r] = "done"]
    /\ attempts' = [attempts EXCEPT ![r] = 0]
    /\ UNCHANGED <<now, query, calls, utcOffset, loopVars>>

\* a bug: the catch swallows the error and sends no response
UpstreamFail_noResponse(r, e) ==
    /\ pc[r] = "awaiting"
    /\ pc' = [pc EXCEPT ![r] = "done"]
    /\ UNCHANGED <<now, cache, query, attempts, resp, served, calls, lastSet,
                   utcOffset, loopVars>>

\* The pending attempt fails with e: axios-retry schedules a retry, or the
\* error propagates through lines 49-52 to the handler's catch (line 112).
UpstreamFail(r, e) ==
    /\ pc[r] = "awaiting"
    /\ IF isNetworkOrIdempotentRequestError(e) /\ RetriesLeft(attempts[r])
       THEN /\ pc' = [pc EXCEPT ![r] = "backoff"]
            /\ UNCHANGED resp
       ELSE /\ pc' = [pc EXCEPT ![r] = "done"]
            /\ resp' = [resp EXCEPT ![r] =
                   Append(@, Response(500, ErrorMessage(e), FALSE, NoBuckets))]
    /\ UNCHANGED <<now, cache, query, attempts, served, calls, lastSet, utcOffset, loopVars>>

\* The exponential delay is over: axios-retry issues the next attempt.
Retry(r) ==
    /\ pc[r] = "backoff"
    /\ pc' = [pc EXCEPT ![r] = "awaiting"]
    /\ attempts' = [attempts EXCEPT ![r] = @ + 1]
    /\ UNCHANGED <<now, cache, query, resp, served, calls, lastSet, utcOffset, loopVars>>

\* Time passes.
Tick ==
    /\ now < MaxTicks * ClockStep
    /\ now' = now + ClockStep
    /\ UNCHANGED <<cache, pc, query, attempts, resp, served, calls, lastSet, utcOffset, loopVars>>

-----------------------------------------------------------------------------
(* The server: requests arrive with one of a few queries *)

Str1 == <<"1">>
Str11 == <<"1", ",", "1">>

Query(lat, lon, a) ==
    [latitude |-> lat, longitude |-> lon, startDate |-> Str1, endDate |-> Str1,
     areaSqFt |-> a]

ServerQueries ==
    { Query(Str1, Str1, <<"5">>),
      Query(Str11, Str1, <<"5">>),
      Query(Str1, Str11, <<"5">>),
      Query(Str1, Str1, <<"-", "5">>),
      [longitude |-> Str1, startDate |-> Str1, endDate |-> Str1, areaSqFt |-> <<"5">>] }

IdleLoop ==
    /\ dates = <<>>
    /\ precipitation = <<>>
    /\ area = NaN
    /\ index = 0
    /\ monthlyWaterCollected = EmptyFn
    /\ totalWaterCollected = 0
    /\ bucketOf = <<>>

IdleServer ==
    /\ now = 0
    /\ cache = EmptyFn
    /\ pc = [r \in Reqs |-> "idle"]
    /\ query = [r \in Reqs |-> EmptyFn]
    /\ attempts = [r \in Reqs |-> 0]
    /\ resp = [r \in Reqs |-> <<>>]
    /\ served = [r \in Reqs |-> NotServed]
    /\ calls = EmptyFn
    /\ lastSet = EmptyFn

Init ==
    /\ IdleServer
    /\ IdleLoop
    /\ utcOffset = 0

Next ==
    \/ \E r \in Reqs, q \in ServerQueries : Receive(r, q)
    \/ \E r \in Reqs, data \in UpstreamBodies : UpstreamSucceed(r, data)
    \/ \E r \in Reqs, e \in Failures : UpstreamFail(r, e)
    \/ \E r \in Reqs : Retry(r)
    \/ Tick

Spec == Init /\ [][Next]_vars


\* The scheduling the runtime guarantees: a pending attempt is eventually
\* answered or fails, and a retry timer eventually fires.  No request is
\* ever bound to arrive and the clock is not bound to advance.
Fairness ==
    \A r \in Reqs :
        /\ WF_vars(\/ \E data \in UpstreamBodies : UpstreamSucceed(r, data)
                   \/ \E e \in Failures : UpstreamFail(r, e))
        /\ WF_vars(Retry(r))

LiveSpec == Init /\ [][Next]_vars /\ Fairness

-----------------------------------------------------------------------------
(* One request, with every query over small strings *)

\* the query with the parameters of S present, those of E empty strings
QueryWith(S, E, a) ==
    [p \in S |-> IF p = "areaSqFt" THEN a ELSE IF p \in E THEN <<>> ELSE Str1]

ValidateQueries ==
    { QueryWith(S, E, a) : S \in SUBSET Params,
                           E \in SUBSET (Params \ {"areaSqFt"}),
                           a \in AreaStrings }

NextValidate ==
    \/ pc[1] = "idle" /\ \E q \in ValidateQueries : Receive(1, q)
    \/ \E data \in UpstreamBodies : UpstreamSucceed(1, data)
    \/ \E e \in Failures : UpstreamFail(1, e)
    \/ Retry(1)

SpecValidate == Init /\ [][NextValidate]_vars

-----------------------------------------------------------------------------
(* The aggregation loop on its own, one forEach callback per step *)

RainValues == {-1, 0, 3, 5}

Areas == {parseFloat(<<"5">>), parseFloat(<<"1", ".", "5">>)}

InitLoop ==
    /\ IdleServer
    /\ utcOffset \in {0, 1}
    /\ \E n \in 1..MaxSeriesLen :
          /\ dates \in [1..n -> Timestamps]
          /\ precipitation \in [1..n -> RainValues]
    /\ area \in Areas
    /\ index = 0
    /\ monthlyWaterCollected = EmptyFn
    /\ totalWaterCollected = 0
    /\ bucketOf = <<>>

\* the buckets a callback created or changed
Touched(old, new) ==
    {m \in DOMAIN new : m \notin DOMAIN old \/ new[m] # old[m]}

ForEachStep ==
    /\ index < Len(dates)
    /\ LET acc == ForEachBody([monthly |-> monthlyWaterCollected,
                               total |-> totalWaterCollected],
                              dates[index + 1], precipitation[index + 1],
                              area, utcOffset)
       IN  /\ monthlyWaterCollected' = acc.monthly
           /\ totalWaterCollected' = acc.total
           /\ bucketOf' = Append(bucketOf, Touched(monthlyWaterCollected, acc.monthly))
    /\ index' = index + 1
    /\ UNCHANGED <<serverVars, utcOffset, dates, precipitation, area>>

NextLoop == ForEachStep

SpecLoop == InitLoop /\ [][NextLoop]_vars


-----------------------------------------------------------------------------
(* Vocabulary of the properties *)

Answered(r) == Len(resp[r]) >= 1

Valid(q) == ~MissingParameters(q) /\ ~InvalidArea(parseFloat(q.areaSqFt))

\* the request went through getWeatherData (it passed validation)
Fetching(r) == pc[r] # "idle" /\ Valid(query[r])

InFlight(r) == pc[r] \in {"awaiting", "backoff"}

\* getWeatherData threw: the upstream call failed for good
FetchFailed(r) ==
    pc[r] = "done" /\ served[r].from = "upstream" /\ served[r].data = undefined

\* getWeatherData returned a payload
Obtained(r) == pc[r] = "done" /\ served[r].data # undefined

LacksShape(v) == ~HasHourly(v) \/ ~HasTime(v) \/ ~HasPrecipitation(v)

-----------------------------------------------------------------------------
\* C1: a request whose four inputs equal those of the last request that
\* stored a response under its key, arriving before that entry's TTL has
\* elapsed, issues no upstream call and is served the stored response,
\* whatever the response was.
C1_SecondRequestIsCacheHit ==
    [][\A r \in Reqs :
          LET q == query'[r]
              k == KeyOf(q)
          IN  (/\ pc[r] = "idle" /\ pc'[r] # "idle"
               /\ Valid(q)
               /\ k \in DOMAIN lastSet
               /\ lastSet[k].tuple = TupleOf(q)
               /\ now < lastSet[k].at + stdTTL)
              => (/\ calls' = calls
                  /\ served'[r].from = "cache"
                  /\ served'[r].data = lastSet[k].v)]_vars

-----------------------------------------------------------------------------
\* a parameter is missing: absent from the query string, or given empty
SomeMissing(q) == \E p \in Params : p \notin DOMAIN q \/ q[p] = <<>>

\* areaSqFt parses to a number greater than zero
PositiveArea(q) ==
    LET a == parseFloat(q.areaSqFt) IN ~a.nan /\ a.num > 0

\* C2: a request is answered 400 exactly when one of the five parameters is
\* missing (with the missing-parameters error) or the area parsed from
\* areaSqFt is not a positive number (with the invalid-area error); a request
\* that reaches the fetcher has all five parameters and a positive area.
C2_ValidateRejectsExactly ==
    \A r \in Reqs :
        pc[r] # "idle" =>
            LET q == query[r]
                is400 == Answered(r) /\ resp[r][1].status = 400
            IN  /\ is400 <=> (SomeMissing(q) \/ ~PositiveArea(q))
                /\ SomeMissing(q) =>
                       resp[r] = <<Response(400, MissingMessage, FALSE, NoBuckets)>>
                /\ (~SomeMissing(q) /\ ~PositiveArea(q)) =>
                       resp[r] = <<Response(400, InvalidAreaMessage, FALSE, NoBuckets)>>
                /\ (InFlight(r) \/ served[r].from # "none") =>
                       (DOMAIN q = Params /\ PositiveArea(q))

\* a request with areaSqFt=-5 was answered 400 "Invalid area value"
C2_Witness ==
    \E r \in Reqs :
        /\ pc[r] = "done"
        /\ DOMAIN query[r] = Params
        /\ query[r].areaSqFt = <<"-", "5">>
        /\ resp[r] = <<Response(400, InvalidAreaMessage, FALSE, NoBuckets)>>

-----------------------------------------------------------------------------
\* C3: whenever the payload getWeatherData returned lacks hourly,
\* hourly.time or hourly.precipitation, the request is answered 500
\* "Invalid weather data structure" and the aggregation did not run.
C3_MalformedPayloadIsStructureError ==
    \A r \in Reqs :
        (Obtained(r) /\ LacksShape(served[r].data)) =>
            resp[r] = <<Response(500, InvalidStructureMessage, FALSE, NoBuckets)>>

-----------------------------------------------------------------------------
UpstreamMessages == {ErrorMessage(e) : e \in Failures}

CallsMade == LET D == DOMAIN calls
                 RECURSIVE Sum(_)
                 Sum(S) == IF S = {} THEN 0
                           ELSE LET k == CHOOSE k \in S : TRUE
                                IN  calls[k] + Sum(S \ {k})
             IN  Sum(D)

FailureIsAnswered500(r) ==
    /\ resp[r][1].status = 500
    /\ resp[r][1].error \in UpstreamMessages
    /\ Len(resp[r]) = 1

-----------------------------------------------------------------------------
\* C5 as stated: an entry is never returned when its age is the TTL or more,
\* and a request whose key was last stored more than the TTL ago fetches.
C5_NoHitAtOrAfterTTL ==
    \A r \in Reqs :
        /\ served[r].from = "cache" => served[r].age < stdTTL
        /\ (Fetching(r) /\ served[r].age > stdTTL) => served[r].from = "upstream"

\* C5 amended: an entry is never returned when its age exceeds the TTL (at
\* exactly the TTL it still is), and a request whose key was last stored
\* more than the TTL ago misses the cache and fetches.
C5_NoHitAfterTTL ==
    \A r \in Reqs :
        /\ served[r].from = "cache" => served[r].age \in 0..stdTTL
        /\ (Fetching(r) /\ served[r].age > stdTTL) => served[r].from = "upstream"

\* a request found its key stored more than the TTL ago and fetched
C5_Witness ==
    \E r \in Reqs :
        Fetching(r) /\ served[r].age > stdTTL /\ served[r].from = "upstream"

-----------------------------------------------------------------------------
\* C6: a request answered 400 or 500 leaves no entry of its own in the
\* cache: every entry was stored by a request that is answered 200.
C6_FailedRequestStoresNothing ==
    \A k \in DOMAIN cache :
        Answered(lastSet[k].by) => resp[lastSet[k].by][1].status = 200

-----------------------------------------------------------------------------
RequestsFor(k) == {r \in Reqs : Fetching(r) /\ KeyOf(query[r]) = k}

\* C8: every request in flight for a key has issued its own upstream call,
\* the calls for a key never outnumber the requests made for it, and the
\* entry in the cache is the response of the call that completed last.
C8_UncoordinatedCache ==
    /\ \A k \in DOMAIN calls :
           /\ calls[k] <= Cardinality(RequestsFor(k))
           /\ Cardinality({r \in RequestsFor(k) : InFlight(r)}) <= calls[k]
    /\ \A r \in Reqs : InFlight(r) => KeyOf(query[r]) \in DOMAIN calls
    /\ \A k \in DOMAIN cache : cache[k].v = lastSet[k].v

\* two requests for one key are both awaiting their own upstream call
C8_Witness ==
    \E r1, r2 \in Reqs :
        /\ r1 # r2
        /\ pc[r1] = "awaiting" /\ pc[r2] = "awaiting"
        /\ KeyOf(query[r1]) = KeyOf(query[r2])
        /\ calls[KeyOf(query[r1])] = 2

-----------------------------------------------------------------------------
\* C9: a request is answered at most once, with status 200, 400 or 500, its
\* response never changes, it is done exactly when answered, and every
\* request that has arrived is eventually answered.
C9_ExactlyOneResponse ==
    /\ [](\A r \in Reqs :
             /\ Len(resp[r]) <= 1
             /\ (pc[r] = "done") <=> Answered(r)
             /\ Answered(r) => resp[r][1].status \in {200, 400, 500})
    /\ [][\A r \in Reqs : Answered(r) => resp'[r] = resp[r]]_vars
    /\ \A r \in Reqs : (pc[r] # "idle") ~> Answered(r)

\* a request was answered 500 once its retries were exhausted
C9_Witness ==
    \E r \in Reqs :
        /\ attempts[r] = retries + 1
        /\ resp[r] = <<Response(500, ErrorMessage("ECONNRESET"), FALSE, NoBuckets)>>

-----------------------------------------------------------------------------
\* C10: a request served from the cache is served what was fetched for its
\* own four inputs.
C10_HitIsForSameInputs ==
    \A r \in Reqs :
        served[r].from = "cache" => served[r].tuple = TupleOf(query[r])


-----------------------------------------------------------------------------
(* Vocabulary of C7 *)

RECURSIVE SumOver(_, _)
SumOver(f, S) ==
    IF S = {} THEN 0
    ELSE LET m == CHOOSE m \in S : TRUE IN f[m] + SumOver(f, S \ {m})

\* the exact sum of the monthly bucket values
SumBuckets == SumOver(monthlyWaterCollected, DOMAIN monthlyWaterCollected)

\* the exact sum of the magnitudes of the amounts added so far
RECURSIVE SumAbsWater(_)
SumAbsWater(n) ==
    IF n = 0 THEN 0
    ELSE Abs(WaterCollected(area, precipitation[n])) + SumAbsWater(n - 1)

\* the YYYY-MM the timestamp itself names
OwnMonth(date) == date.ym

\* the YYYY-MM of the timestamp's instant in the server's local time
LocalMonth(date) ==
    IF date.zone = "none" \/ utcOffset = 0 \/ ~date.lastHour
    THEN OwnMonth(date) ELSE OwnMonth(date) + 1

====
